---- MODULE Spec2Model ----
(***************************************************************************)
(* Model of src/dbt_runner.py: class DbtCloudRunner, a client of the dbt   *)
(* cloud API v2.  Python strings are sequences of one-character strings,   *)
(* so that f-string concatenation, str.replace and str(int) are computed   *)
(* and not assumed.  Optional arguments are records [some, v]; None is     *)
(* some = FALSE.  The exceptions carry the names the code raises.  The     *)
(* error names of the written specification translate as                   *)
(*   InvalidArgumentError -> ValueError  (raise at line 118)               *)
(*   UnknownStatusError   -> KeyError    (dict lookup at line 180)         *)
(*   RunFailedError       -> Exception   (raise at line 224)               *)
(* and a failure of urlopen (non-2xx answer or transport) is HTTPError.    *)
(***************************************************************************)
EXTENDS Integers, Sequences, FiniteSets, TLC

VARIABLES
  client,      \* the DbtCloudRunner object
  pc,          \* where the calling thread is: idle, inside poll_run_status,
               \* or back in the caller with the outcome of the call
  call,        \* the latest call and its arguments
  request,     \* the latest HTTP request of that call, NoRequest if none yet
  result,      \* how that call ended, or pending
  file_write,  \* the file that call wrote, NoWrite if none
  script,      \* answers the API gives to the status queries of the poll
  queries,     \* status queries the poll has made
  sleeps,      \* time.sleep calls the poll has made
  gap,         \* seconds slept since the latest query (or since the call)
  query_gap,   \* value of gap when the latest query was made
  status       \* label the latest query of the poll gave, "" if none

vars == <<client, pc, call, request, result, file_write,
          script, queries, sleeps, gap, query_gap, status>>

(* ------------------------------ bounds -------------------------------- *)

\* longest scripted sequence of answers of the API to the status queries
MaxLen == 3
\* largest number of pieces a git branch argument is put together from
MaxParts == 2

\* default of poll_interval (line 207)
DefaultPollInterval == 10

(* ------------------------------ strings ------------------------------- *)

Digit(d) ==
  CASE d = 0 -> "0" [] d = 1 -> "1" [] d = 2 -> "2" [] d = 3 -> "3"
    [] d = 4 -> "4" [] d = 5 -> "5" [] d = 6 -> "6" [] d = 7 -> "7"
    [] d = 8 -> "8" [] d = 9 -> "9"

RECURSIVE IntToStr(_)
\* str(n) of a non-negative int, as an f-string formats it
IntToStr(n) ==
  IF n < 10 THEN <<Digit(n)>>
  ELSE IntToStr(n \div 10) \o <<Digit(n % 10)>>

StartsWith(s, p) == Len(s) >= Len(p) /\ SubSeq(s, 1, Len(p)) = p

RECURSIVE Replace(_, _, _)
\* str.replace(old, new): every non-overlapping occurrence, left to right
Replace(s, old, new) ==
  IF Len(s) < Len(old) THEN s
  ELSE IF StartsWith(s, old)
       THEN new \o Replace(SubSeq(s, Len(old) + 1, Len(s)), old, new)
       ELSE <<Head(s)>> \o Replace(Tail(s), old, new)

RefsHeads == <<"r","e","f","s","/","h","e","a","d","s","/">>
Hyphen == <<"-">>
Underscore == <<"_">>

\* the literals of the f-strings
ApiV2Accounts == <<"/","a","p","i","/","v","2","/","a","c","c","o","u","n","t","s","/">>
JobsSeg == <<"/","j","o","b","s","/">>
RunSeg == <<"/","r","u","n","/">>
RunsSeg == <<"/","r","u","n","s","/">>
ArtifactsSeg == <<"a","r","t","i","f","a","c","t","s","/">>
SlashArtifactsSeg == <<"/">> \o ArtifactsSeg
StepQuery == <<"?","s","t","e","p","=">>
CancelSeg == <<"/","c","a","n","c","e","l","/">>
DeploySeg == <<"/","d","e","p","l","o","y","/">>
ProjectsSeg == <<"/","p","r","o","j","e","c","t","s","/">>
TokenPrefix == <<"T","o","k","e","n"," ">>
FailedMsg == <<"R","u","n"," ","f","a","i","l","e","d"," ","o","r"," ",
               "c","a","n","c","e","l","e","d","."," ","S","e","e"," ",
               "w","h","y"," ","a","t"," ">>

(* ----------------------------- optionals ------------------------------ *)

None == [some |-> FALSE, v |-> <<>>]
NoneInt == [some |-> FALSE, v |-> 0]
Some(x) == [some |-> TRUE, v |-> x]
\* truth value of an optional str or list argument: `if x:`
Truthy(o) == o.some /\ o.v # <<>>
\* truth value of an optional int argument
TruthyInt(o) == o.some /\ o.v # 0

(* ------------------------------ inputs -------------------------------- *)

ApiBases == {<<>>, <<"h">>}
ApiKeys == {<<>>, <<"k">>}
AccountIds == {<<>>, <<"7">>}
ProjectIds == {<<>>, <<"9">>}

JobIds == {3, 12}
RunIds == {5, 40}
Causes == {<<"c","i">>}

BranchPieces == {RefsHeads, <<"m">>, <<"r","e","f","s","/">>}
RECURSIVE BranchesOf(_)
BranchesOf(n) ==
  IF n = 0 THEN {<<>>}
  ELSE LET shorter == BranchesOf(n - 1)
       IN shorter \cup {b \o p : b \in shorter, p \in BranchPieces}
Branches == BranchesOf(MaxParts)

OptBranches == {None} \cup {Some(b) : b \in Branches}
OptShas == {None, Some(<<>>), Some(<<"a","1">>)}
OptSchemas == {None, Some(<<>>), Some(<<"a","-","b">>)}
OptSteps == {None, Some(<<>>), Some(<<"dbt run">>)}
OptPullRequests == {NoneInt, Some(0), Some(8)}

ArtifactNames == {<<"m">>}
OptStepArgs == {None, Some(<<>>), Some(<<"2">>)}
ArtifactPaths == {"out.json"}
Bodies == {"body"}

KnownCodes == {1, 2, 3, 10, 20, 30}
UnknownCodes == {4}
ApiCodes == KnownCodes \cup UnknownCodes

\* what urlopen gives for a request: a 2xx answer, or it raises
HttpFailed == [http_ok |-> FALSE, status |-> 0, id |-> 0, is_success |-> FALSE,
               body |-> ""]
StatusAnswer(c) == [http_ok |-> TRUE, status |-> c, id |-> 0,
                    is_success |-> FALSE, body |-> ""]
StatusAnswers == {StatusAnswer(c) : c \in ApiCodes} \cup {HttpFailed}
RunAnswers == {[http_ok |-> TRUE, status |-> 0, id |-> 77, is_success |-> FALSE,
                body |-> ""], HttpFailed}
CancelAnswers == {[http_ok |-> TRUE, status |-> 0, id |-> 0, is_success |-> b,
                   body |-> ""] : b \in BOOLEAN} \cup {HttpFailed}
ArtifactAnswers == {[http_ok |-> TRUE, status |-> 0, id |-> 0,
                     is_success |-> FALSE, body |-> b] : b \in Bodies}
                   \cup {HttpFailed}

RECURSIVE SeqsUpTo(_, _)
SeqsUpTo(S, n) ==
  IF n = 0 THEN {<<>>}
  ELSE LET shorter == SeqsUpTo(S, n - 1)
       IN shorter \cup {Append(s, x) : s \in shorter, x \in S}
Scripts == SeqsUpTo(StatusAnswers, MaxLen) \ {<<>>}
PollIntervals == {1, DefaultPollInterval}

(* --------------------------- DbtCloudRunner --------------------------- *)

run_status_map ==
  [c \in KnownCodes |->
     CASE c = 1 -> "Queued" [] c = 2 -> "Starting" [] c = 3 -> "Running"
       [] c = 10 -> "Success" [] c = 20 -> "Error" [] c = 30 -> "Cancelled"]

\* a constructor that rejects an empty field
DbtCloudRunnerValidating(api_base, api_key, account_id, project_id) ==
  [raised |-> IF <<>> \in {api_base, api_key, account_id, project_id}
              THEN "ConfigurationError" ELSE "none",
   api_base |-> api_base,
   api_key |-> api_key,
   account_id |-> account_id,
   project_id |-> project_id,
   req_headers |-> [Authorization |-> TokenPrefix \o api_key,
                    ContentType |-> "application/json"],
   base_url |-> api_base \o ApiV2Accounts \o account_id]

\* __init__: stores the arguments as given and derives headers and base_url;
\* it has no raise statement
DbtCloudRunner(api_base, api_key, account_id, project_id) ==
  [raised |-> "none",
   api_base |-> api_base,
   api_key |-> api_key,
   account_id |-> account_id,
   project_id |-> project_id,
   req_headers |-> [Authorization |-> TokenPrefix \o api_key,
                    ContentType |-> "application/json"],
   base_url |-> api_base \o ApiV2Accounts \o account_id]

_get_run_url(self, run_id) ==
  self.base_url \o RunsSeg \o IntToStr(run_id) \o <<"/">>

_get_artifact_url(self, artifact_name, run_id, step) ==
  _get_run_url(self, run_id) \o ArtifactsSeg \o artifact_name
    \o (IF Truthy(step) THEN StepQuery \o step.v ELSE <<>>)

_get_job_url(self, job_id) ==
  self.base_url \o JobsSeg \o IntToStr(job_id) \o RunSeg

_get_job_artifact_url(self, job_id, artifact) ==
  self.base_url \o JobsSeg \o IntToStr(job_id) \o SlashArtifactsSeg \o artifact

get_status_link(self, run_id) ==
  self.api_base \o DeploySeg \o self.account_id \o ProjectsSeg
    \o self.project_id \o RunsSeg \o IntToStr(run_id) \o <<"/">>

\* the URL cancel_run builds (line 151)
cancel_url(self, run_id) == _get_run_url(self, run_id) \o CancelSeg

(* --------------------------- requests, results ------------------------ *)

NoPayload == [k \in {} |-> <<>>]
NoRequest == [method |-> "NONE", url |-> <<>>,
              headers |-> [Authorization |-> <<>>, ContentType |-> ""],
              data |-> NoPayload]
\* Request(...): the method is GET unless given
HttpRequest(method, url, headers, data) ==
  [method |-> method, url |-> url, headers |-> headers, data |-> data]

NoWrite == [path |-> "", content |-> ""]

Pending(op) == [op |-> op, outcome |-> "pending", raised |-> "none",
                msg |-> <<>>, ret |-> "None"]
Returned(op, v) == [op |-> op, outcome |-> "returned", raised |-> "none",
                    msg |-> <<>>, ret |-> v]
Raised(op, e, m) == [op |-> op, outcome |-> "raised", raised |-> e,
                     msg |-> m, ret |-> "None"]

Put(d, k, v) == [x \in DOMAIN d \cup {k} |-> IF x = k THEN v ELSE d[x]]

NoScript == <<>>
\* the observations of a poll, cleared by the calls that are not a poll
NoPoll ==
  /\ script' = NoScript
  /\ queries' = 0
  /\ sleeps' = 0
  /\ gap' = 0
  /\ query_gap' = 0
  /\ status' = ""

Min(a, b) == IF a <= b THEN a ELSE b
\* the counters stop counting here; the loop itself has no bound
CountCap == MaxLen + 1

Init ==
  /\ \E b \in ApiBases, k \in ApiKeys, a \in AccountIds, p \in ProjectIds :
       client = DbtCloudRunner(b, k, a, p)
  /\ pc = "idle"
  /\ call = [op |-> "__init__"]
  /\ request = NoRequest
  /\ result = Returned("__init__", "None")
  /\ file_write = NoWrite
  /\ script = NoScript
  /\ queries = 0
  /\ sleeps = 0
  /\ gap = 0
  /\ query_gap = 0
  /\ status = ""

\* an operation can be called on the client once it exists and while no
\* other call of this thread is running
Callable == client.raised = "none" /\ pc = "idle"

\* the caller has taken the outcome of a call and is ready for the next one
Continue ==
  /\ pc = "ended"
  /\ pc' = "idle"
  /\ call' = [op |-> "none"]
  /\ request' = NoRequest
  /\ result' = Returned("none", "None")
  /\ file_write' = NoWrite
  /\ NoPoll
  /\ UNCHANGED client

(* ------------------------------ run_job ------------------------------- *)

\* the check of line 117 left out
BothGivenUnchecked(git_branch, git_sha) == FALSE

\* line 117
BothGiven(git_branch, git_sha) == Truthy(git_branch) /\ Truthy(git_sha)

\* line 123
NormalizeBranch(git_branch) == Replace(git_branch, RefsHeads, <<>>)
\* line 127
NormalizeSchema(schema_override) == Replace(schema_override, Hyphen, Underscore)

\* a payload that always carries git_sha, null when it was not given
req_payload_with_null_sha(job_cause, git_branch, git_sha, schema_override, steps_override, azure_pull_request_id) ==
  LET p0 == Put(NoPayload, "cause", job_cause)
      p1 == IF Truthy(git_branch)
            THEN Put(p0, "git_branch", Replace(git_branch.v, RefsHeads, <<>>))
            ELSE p0
      p2 == Put(p1, "git_sha", git_sha.v)
      p3 == IF Truthy(schema_override)
            THEN Put(p2, "schema_override",
                     Replace(schema_override.v, Hyphen, Underscore))
            ELSE p2
      p4 == IF Truthy(steps_override)
            THEN Put(p3, "steps_override", steps_override.v) ELSE p3
      p5 == IF TruthyInt(azure_pull_request_id)
            THEN Put(p4, "azure_pull_request_id", azure_pull_request_id.v)
            ELSE p4
  IN p5

\* lines 121-131: the dict that json.dumps serialises into the body
req_payload(job_cause, git_branch, git_sha, schema_override, steps_override, azure_pull_request_id) ==
  LET p0 == Put(NoPayload, "cause", job_cause)
      p1 == IF Truthy(git_branch)
            THEN Put(p0, "git_branch", NormalizeBranch(git_branch.v)) ELSE p0
      p2 == IF Truthy(git_sha) THEN Put(p1, "git_sha", git_sha.v) ELSE p1
      p3 == IF Truthy(schema_override)
            THEN Put(p2, "schema_override", NormalizeSchema(schema_override.v))
            ELSE p2
      p4 == IF Truthy(steps_override)
            THEN Put(p3, "steps_override", steps_override.v) ELSE p3
      p5 == IF TruthyInt(azure_pull_request_id)
            THEN Put(p4, "azure_pull_request_id", azure_pull_request_id.v)
            ELSE p4
  IN p5

RunJob ==
  /\ Callable
  /\ \E job_id \in JobIds, job_cause \in Causes, git_branch \in OptBranches,
        git_sha \in OptShas, schema_override \in OptSchemas,
        steps_override \in OptSteps,
        azure_pull_request_id \in OptPullRequests, answer \in RunAnswers :
       /\ call' = [op |-> "run_job", job_id |-> job_id, job_cause |-> job_cause,
                   git_branch |-> git_branch, git_sha |-> git_sha,
                   schema_override |-> schema_override,
                   steps_override |-> steps_override,
                   azure_pull_request_id |-> azure_pull_request_id]
       /\ IF BothGiven(git_branch, git_sha)
          THEN /\ request' = NoRequest
               /\ result' = Raised("run_job", "ValueError", <<>>)
          ELSE /\ request' = HttpRequest("POST", _get_job_url(client, job_id),
                                         client.req_headers,
                                         req_payload(job_cause, git_branch,
                                                     git_sha, schema_override,
                                                     steps_override,
                                                     azure_pull_request_id))
               /\ result' = IF answer.http_ok
                            THEN Returned("run_job", answer.id)
                            ELSE Raised("run_job", "HTTPError", <<>>)
  /\ file_write' = NoWrite
  /\ pc' = "ended"
  /\ NoPoll
  /\ UNCHANGED client

(* ----------------------------- cancel_run ----------------------------- *)

CancelRun ==
  /\ Callable
  /\ \E run_id \in RunIds, answer \in CancelAnswers :
       /\ call' = [op |-> "cancel_run", run_id |-> run_id]
       /\ request' = HttpRequest("POST", cancel_url(client, run_id),
                                 client.req_headers, NoPayload)
       /\ result' = IF answer.http_ok
                    THEN Returned("cancel_run", answer.is_success)
                    ELSE Raised("cancel_run", "HTTPError", <<>>)
  /\ file_write' = NoWrite
  /\ pc' = "ended"
  /\ NoPoll
  /\ UNCHANGED client

(* --------------------------- get_run_status --------------------------- *)

\* a lookup with a default label: run_status_map.get(code, "Unknown")
StatusLookupDefault(op, code) ==
  IF code \in DOMAIN run_status_map
  THEN Returned(op, run_status_map[code])
  ELSE Returned(op, "Unknown")

\* a lookup that swallows the KeyError and reports the run as still queued
StatusLookupQueued(op, code) ==
  IF code \in DOMAIN run_status_map
  THEN Returned(op, run_status_map[code])
  ELSE Returned(op, "Queued")

\* line 180: self.run_status_map[run_status_code]
StatusLookup(op, code) ==
  IF code \in DOMAIN run_status_map
  THEN Returned(op, run_status_map[code])
  ELSE Raised(op, "KeyError", IntToStr(code))

\* the request get_run_status makes and how it ends, given the answer
get_run_status(self, op, run_id, answer) ==
  [request |-> HttpRequest("GET", _get_run_url(self, run_id),
                           self.req_headers, NoPayload),
   result |-> IF answer.http_ok
              THEN StatusLookup(op, answer.status)
              ELSE Raised(op, "HTTPError", <<>>)]

GetRunStatus ==
  /\ Callable
  /\ \E run_id \in RunIds, answer \in StatusAnswers :
       LET got == get_run_status(client, "get_run_status", run_id, answer)
       IN /\ call' = [op |-> "get_run_status", run_id |-> run_id,
                      answer |-> answer]
          /\ request' = got.request
          /\ result' = got.result
  /\ file_write' = NoWrite
  /\ pc' = "ended"
  /\ NoPoll
  /\ UNCHANGED client

(* ------------------------------ artifacts ----------------------------- *)

\* lines 196-201 and 246-251: read the body, then write it to the path
SaveArtifact(op, answer, artifact_path) ==
  /\ result' = IF answer.http_ok
               THEN Returned(op, "None")
               ELSE Raised(op, "HTTPError", <<>>)
  /\ file_write' = IF answer.http_ok
                   THEN [path |-> artifact_path, content |-> answer.body]
                   ELSE NoWrite

GetLatestJobArtifact ==
  /\ Callable
  /\ \E job_id \in JobIds, artifact \in ArtifactNames,
        artifact_path \in ArtifactPaths, answer \in ArtifactAnswers :
       /\ call' = [op |-> "get_latest_job_artifact", job_id |-> job_id,
                   artifact |-> artifact, artifact_path |-> artifact_path]
       /\ request' = HttpRequest("GET",
                                 _get_job_artifact_url(client, job_id, artifact),
                                 client.req_headers, NoPayload)
       /\ SaveArtifact("get_latest_job_artifact", answer, artifact_path)
  /\ pc' = "ended"
  /\ NoPoll
  /\ UNCHANGED client

GetRunArtifact ==
  /\ Callable
  /\ \E run_id \in RunIds, artifact \in ArtifactNames,
        artifact_path \in ArtifactPaths, step \in OptStepArgs,
        answer \in ArtifactAnswers :
       /\ call' = [op |-> "get_run_artifact", run_id |-> run_id,
                   artifact |-> artifact, artifact_path |-> artifact_path,
                   step |-> step]
       /\ request' = HttpRequest("GET",
                                 _get_artifact_url(client, artifact, run_id, step),
                                 client.req_headers, NoPayload)
       /\ SaveArtifact("get_run_artifact", answer, artifact_path)
  /\ pc' = "ended"
  /\ NoPoll
  /\ UNCHANGED client

(* ---------------------------- get_status_link ------------------------- *)

GetStatusLink ==
  /\ Callable
  /\ \E run_id \in RunIds :
       /\ call' = [op |-> "get_status_link", run_id |-> run_id]
       /\ result' = Returned("get_status_link", get_status_link(client, run_id))
  /\ request' = NoRequest
  /\ file_write' = NoWrite
  /\ pc' = "ended"
  /\ NoPoll
  /\ UNCHANGED client

(* ---------------------------- poll_run_status ------------------------- *)

\* a check that forgets Cancelled
IsFailedOnlyError(s) == s = "Error"
\* a loop that has no normal exit
IsSuccessNever(s) == FALSE

\* line 222
IsFailed(s) == s \in {"Error", "Cancelled"}
\* line 225
IsSuccess(s) == s = "Success"
\* lines 217 and 227: time.sleep(poll_interval) lasts poll_interval seconds
Slept(poll_interval) == poll_interval
\* the answer the API gives to the k-th status query: the script, and its
\* last answer again once the script is over
AnswerTo(k) == script[Min(k, Len(script))]

\* the call without the sleep of line 217
PollStartNoSleep ==
  /\ client.raised = "none" /\ pc = "idle"
  /\ \E run_id \in RunIds, poll_interval \in PollIntervals, s \in Scripts :
       /\ call' = [op |-> "poll_run_status", run_id |-> run_id,
                   poll_interval |-> poll_interval]
       /\ script' = s
  /\ gap' = 0
  /\ sleeps' = 0
  /\ queries' = 0
  /\ query_gap' = 0
  /\ status' = ""
  /\ request' = NoRequest
  /\ result' = Pending("poll_run_status")
  /\ file_write' = NoWrite
  /\ pc' = "poll_query"
  /\ UNCHANGED client

\* the call, up to the end of the first time.sleep (line 217)
PollStart ==
  /\ Callable
  /\ \E run_id \in RunIds, poll_interval \in PollIntervals, s \in Scripts :
       /\ call' = [op |-> "poll_run_status", run_id |-> run_id,
                   poll_interval |-> poll_interval]
       /\ script' = s
       /\ gap' = Slept(poll_interval)
  /\ sleeps' = 1
  /\ queries' = 0
  /\ query_gap' = 0
  /\ status' = ""
  /\ request' = NoRequest
  /\ result' = Pending("poll_run_status")
  /\ file_write' = NoWrite
  /\ pc' = "poll_query"
  /\ UNCHANGED client

\* lines 220-226: one status query and what the loop does with its answer
PollQuery ==
  /\ pc = "poll_query"
  /\ LET got == get_run_status(client, "poll_run_status", call.run_id,
                               AnswerTo(queries + 1))
         label == got.result.ret
     IN /\ request' = got.request
        /\ IF got.result.outcome = "raised"
           THEN /\ result' = got.result
                /\ status' = ""
                /\ pc' = "ended"
           ELSE /\ status' = label
                /\ IF IsFailed(label)
                   THEN /\ result' = Raised("poll_run_status", "Exception",
                                            FailedMsg \o
                                            get_status_link(client, call.run_id))
                        /\ pc' = "ended"
                   ELSE IF IsSuccess(label)
                   THEN /\ result' = Returned("poll_run_status", "None")
                        /\ pc' = "ended"
                   ELSE /\ result' = result
                        /\ pc' = "poll_sleep"
  /\ queries' = Min(queries + 1, CountCap)
  /\ query_gap' = gap
  /\ gap' = 0
  /\ UNCHANGED <<client, call, file_write, script, sleeps>>

\* line 227
PollSleep ==
  /\ pc = "poll_sleep"
  /\ sleeps' = Min(sleeps + 1, CountCap)
  /\ gap' = gap + Slept(call.poll_interval)
  /\ pc' = "poll_query"
  /\ UNCHANGED <<client, call, request, result, file_write, script, queries,
                 query_gap, status>>

Next ==
  \/ Continue
  \/ RunJob
  \/ CancelRun
  \/ GetRunStatus
  \/ GetLatestJobArtifact
  \/ GetRunArtifact
  \/ GetStatusLink
  \/ PollStart
  \/ PollQuery
  \/ PollSleep

Spec == Init /\ [][Next]_vars

\* a client constructed with four non-empty fields
InitConfigured ==
  /\ Init
  /\ <<>> \notin {client.api_base, client.api_key, client.account_id,
                  client.project_id}

\* the calling thread runs: a sleep ends and a query is made
FairSpec ==
  /\ InitConfigured
  /\ [][Next]_vars
  /\ WF_vars(PollQuery)
  /\ WF_vars(PollSleep)

(* ------------------------ what the claims refer to -------------------- *)

RECURSIVE JoinSlash(_)
\* the segments with exactly one slash between two neighbours
JoinSlash(segs) ==
  IF Len(segs) = 1 THEN segs[1]
  ELSE segs[1] \o <<"/">> \o JoinSlash(Tail(segs))

W_api == <<"a","p","i">>
W_v2 == <<"v","2">>
W_accounts == <<"a","c","c","o","u","n","t","s">>
W_jobs == <<"j","o","b","s">>
W_run == <<"r","u","n">>
W_runs == <<"r","u","n","s">>
W_cancel == <<"c","a","n","c","e","l">>
W_artifacts == <<"a","r","t","i","f","a","c","t","s">>
W_deploy == <<"d","e","p","l","o","y">>
W_projects == <<"p","r","o","j","e","c","t","s">>

\* {base}/api/v2/accounts/{account_id}/
AccountRoot ==
  JoinSlash(<<client.api_base, W_api, W_v2, W_accounts, client.account_id>>)
    \o <<"/">>

GivenNonEmpty(o) == o.some /\ Len(o.v) > 0
GivenNonZero(o) == o.some /\ o.v # 0

\* the URL the interface table gives for the latest call
TableUrl ==
  CASE call.op = "run_job" ->
         AccountRoot \o JoinSlash(<<W_jobs, IntToStr(call.job_id), W_run>>)
           \o <<"/">>
    [] call.op \in {"get_run_status", "poll_run_status"} ->
         AccountRoot \o JoinSlash(<<W_runs, IntToStr(call.run_id)>>) \o <<"/">>
    [] call.op = "cancel_run" ->
         AccountRoot \o JoinSlash(<<W_runs, IntToStr(call.run_id), W_cancel>>)
           \o <<"/">>
    [] call.op = "get_latest_job_artifact" ->
         AccountRoot \o JoinSlash(<<W_jobs, IntToStr(call.job_id), W_artifacts,
                                    call.artifact>>)
    [] call.op = "get_run_artifact" ->
         AccountRoot \o JoinSlash(<<W_runs, IntToStr(call.run_id), W_artifacts,
                                    call.artifact>>)
           \o (IF GivenNonEmpty(call.step)
               THEN <<"?","s","t","e","p","=">> \o call.step.v ELSE <<>>)

TableMethod ==
  IF call.op \in {"run_job", "cancel_run"} THEN "POST" ELSE "GET"

\* {base_url}/deploy/{account_id}/projects/{project_id}/runs/{run_id}/
StatusLink(run_id) ==
  JoinSlash(<<client.api_base, W_deploy, client.account_id, W_projects,
              client.project_id, W_runs, IntToStr(run_id)>>) \o <<"/">>

EndsWith(s, t) ==
  Len(s) >= Len(t) /\ SubSeq(s, Len(s) - Len(t) + 1, Len(s)) = t

FixedTable == {<<1, "Queued">>, <<2, "Starting">>, <<3, "Running">>,
               <<10, "Success">>, <<20, "Error">>, <<30, "Cancelled">>}

AnswersNonTerminal(a) == a.http_ok /\ a.status \in {1, 2, 3}
AnswersTerminal(a) == a.http_ok /\ a.status \in {10, 20, 30}
AnswersUnknown(a) ==
  a.http_ok /\ a.status \notin {1, 2, 3, 10, 20, 30}

\* position of the first answer of s that is not Queued, Starting or
\* Running; 0 when there is none
FirstEnd(s) ==
  IF \E i \in 1..Len(s) : ~AnswersNonTerminal(s[i])
  THEN CHOOSE i \in 1..Len(s) :
         /\ ~AnswersNonTerminal(s[i])
         /\ \A j \in 1..(i - 1) : AnswersNonTerminal(s[j])
  ELSE 0

InPoll == call.op = "poll_run_status"
PollEnded == InPoll /\ pc = "ended"
PollRunning == InPoll /\ pc \in {"poll_query", "poll_sleep"}
\* the first terminal status of the script is at position n >= 1
TerminalAt(n) == n >= 1 /\ FirstEnd(script) = n /\ AnswersTerminal(script[n])
UnknownAt(n) == n >= 1 /\ FirstEnd(script) = n /\ AnswersUnknown(script[n])

\* the git_branch argument with one leading refs/heads/ taken off
StripLeadingRefsHeads(b) ==
  IF StartsWith(b, RefsHeads) THEN SubSeq(b, Len(RefsHeads) + 1, Len(b)) ELSE b

(* -------------------------------- claims ------------------------------ *)

\* C1: when the first terminal status of the scripted answers is at position
\* n, the poll makes exactly n status queries and none after the terminal
\* one, it has slept once before the first query and once between two
\* consecutive queries, and every query comes exactly one poll_interval after
\* the query before it (or after the call).
C1_ExactlyNQueriesOneIntervalApart ==
  InPoll =>
    /\ queries > 0 => query_gap = call.poll_interval
    /\ \A n \in 1..Len(script) :
         TerminalAt(n) =>
           /\ queries <= n
           /\ pc = "poll_query" => sleeps = queries + 1
           /\ pc = "poll_sleep" => sleeps = queries
           /\ pc = "ended" <=> queries = n
           /\ pc = "ended" => sleeps = n

\* a poll that ended at the terminal status in second position, with a
\* scripted answer left after it
C1_Witness ==
  /\ PollEnded
  /\ TerminalAt(2)
  /\ Len(script) > 2
  /\ queries = 2
  /\ sleeps = 2

\* C2: the poll returns normally exactly when the first terminal status it
\* observes is Success; when it is Error or Cancelled the poll raises the
\* Exception of line 224 and its message ends with the status link
\* {base_url}/deploy/{account_id}/projects/{project_id}/runs/{run_id}/ of
\* the polled run and of the client's configuration.
C2_ReturnIffSuccessElseFailsWithLink ==
  PollEnded =>
    /\ result.outcome = "returned" <=>
         \E n \in 1..Len(script) : TerminalAt(n) /\ script[n].status = 10
    /\ \A n \in 1..Len(script) :
         TerminalAt(n) /\ script[n].status \in {20, 30} =>
           /\ result.outcome = "raised"
           /\ result.raised = "Exception"
           /\ EndsWith(result.msg, StatusLink(call.run_id))

\* a poll that saw Running and then Cancelled and failed, on a client whose
\* fields are all non-empty
C2_Witness ==
  /\ PollEnded
  /\ TerminalAt(2)
  /\ script[2].status = 30
  /\ result.raised = "Exception"
  /\ <<>> \notin {client.api_base, client.account_id, client.project_id}

\* C3: for an answered query, get_run_status returns the label of the fixed
\* table for every code of the table, and for every other code it raises
\* KeyError and returns nothing.
C3_LabelOfTableOrKeyError ==
  (call.op = "get_run_status" /\ pc = "ended" /\ call.answer.http_ok) =>
    IF call.answer.status \in {1, 2, 3, 10, 20, 30}
    THEN /\ result.outcome = "returned"
         /\ <<call.answer.status, result.ret>> \in FixedTable
    ELSE /\ result.outcome = "raised"
         /\ result.raised = "KeyError"

\* get_run_status was answered with a code outside the table and raised
C3_Witness ==
  /\ call.op = "get_run_status"
  /\ pc = "ended"
  /\ call.answer.http_ok
  /\ call.answer.status = 4
  /\ result.raised = "KeyError"

\* C4 as stated: run_job with git_branch and git_sha both supplied (not
\* None) raises ValueError and issues no HTTP request.
C4_Original ==
  (call.op = "run_job" /\ pc = "ended"
     /\ call.git_branch.some /\ call.git_sha.some) =>
    /\ result.raised = "ValueError"
    /\ request = NoRequest

\* C4 amended: run_job with git_branch and git_sha both supplied with a
\* non-empty value raises ValueError and issues no HTTP request, whatever
\* the other arguments are.
C4_BothNonEmptyFailsBeforeRequest ==
  (call.op = "run_job" /\ pc = "ended"
     /\ GivenNonEmpty(call.git_branch) /\ GivenNonEmpty(call.git_sha)) =>
    /\ result.outcome = "raised"
    /\ result.raised = "ValueError"
    /\ request = NoRequest

\* run_job rejected a call with both, and with other optional fields given
C4_Witness ==
  /\ call.op = "run_job"
  /\ pc = "ended"
  /\ GivenNonEmpty(call.git_branch)
  /\ GivenNonEmpty(call.git_sha)
  /\ GivenNonEmpty(call.schema_override)
  /\ result.raised = "ValueError"

\* the optional fields of the latest run_job call that satisfy Given
FieldsWhere(Given(_), GivenInt(_)) ==
  {"cause"}
    \cup (IF Given(call.git_branch) THEN {"git_branch"} ELSE {})
    \cup (IF Given(call.git_sha) THEN {"git_sha"} ELSE {})
    \cup (IF Given(call.schema_override) THEN {"schema_override"} ELSE {})
    \cup (IF Given(call.steps_override) THEN {"steps_override"} ELSE {})
    \cup (IF GivenInt(call.azure_pull_request_id)
          THEN {"azure_pull_request_id"} ELSE {})

IsSupplied(o) == o.some
RunJobSent == call.op = "run_job" /\ pc = "ended" /\ request.method = "POST"

\* C5 as stated: the keys of the body run_job sends are cause plus the
\* optional fields passed with a non-null value.
C5_Original ==
  RunJobSent => DOMAIN request.data = FieldsWhere(IsSupplied, IsSupplied)

\* C5 amended: the keys of the body run_job sends are cause plus the
\* optional fields passed with a value that is neither null nor empty nor
\* zero; every other field is absent.
C5_KeysAreCauseAndNonEmptyFields ==
  RunJobSent => DOMAIN request.data = FieldsWhere(GivenNonEmpty, GivenNonZero)

\* run_job sent a body with a field that was given and one that was passed
\* empty
C5_Witness ==
  /\ RunJobSent
  /\ GivenNonEmpty(call.schema_override)
  /\ call.steps_override = Some(<<>>)
  /\ DOMAIN request.data = {"cause", "schema_override"}

\* C6: the git_branch sent is the supplied value with a leading refs/heads/
\* stripped and otherwise unchanged; an occurrence of refs/heads/ that is not
\* at the start is left in place.
C6_OnlyLeadingPrefixStripped ==
  (RunJobSent /\ "git_branch" \in DOMAIN request.data) =>
    request.data["git_branch"] = StripLeadingRefsHeads(call.git_branch.v)

\* C7: every HTTP request has the method and the URL of the interface
\* table, {base}/api/v2/accounts/{account_id}/ followed by the path of the
\* operation with exactly one slash between path segments.
C7_RequestsFollowInterfaceTable ==
  request.method # "NONE" =>
    /\ request.method = TableMethod
    /\ request.url = TableUrl

\* C8 as stated: no client object with an empty required field exists.
C8_Original ==
  client.raised = "none" =>
    <<>> \notin {client.api_base, client.api_key, client.account_id,
                 client.project_id}

\* C8 amended: constructing the client never fails and validates nothing;
\* the four fields are kept as given, empty or not, the Authorization header
\* is Token followed by the key and the base URL is
\* {api_base}/api/v2/accounts/{account_id}.
C8_ConstructionNeverFails ==
  /\ client.raised = "none"
  /\ client.req_headers.Authorization = <<"T","o","k","e","n"," ">> \o client.api_key
  /\ client.base_url
       = JoinSlash(<<client.api_base, W_api, W_v2, W_accounts, client.account_id>>)

\* an operation was called on a client whose API key and account id are
\* empty, and it sent its request
C8_Witness ==
  /\ pc = "ended"
  /\ request.method # "NONE"
  /\ client.api_key = <<>>
  /\ client.account_id = <<>>

\* C9: when a status query of the poll is answered with a code outside the
\* table, the poll ends with KeyError at that query: no sleep and no query
\* follows, and the poll neither returns normally nor raises the Exception of
\* line 224.
C9_UnknownCodeEndsPollAtOnce ==
  InPoll =>
    \A n \in 1..Len(script) :
      UnknownAt(n) =>
        /\ queries <= n
        /\ sleeps <= n
        /\ queries = n =>
             /\ pc = "ended"
             /\ result.outcome = "raised"
             /\ result.raised = "KeyError"

\* a poll that saw Running and then an unknown code, with answers left
C9_Witness ==
  /\ PollEnded
  /\ UnknownAt(2)
  /\ Len(script) > 2
  /\ queries = 2
  /\ sleeps = 2
  /\ result.raised = "KeyError"

\* C10: the poll ends only at a query that is not answered Queued, Starting
\* or Running, so it keeps looping as long as these are the answers, beyond
\* any number of iterations; and when the script reaches a terminal status
\* the poll eventually ends, by return or by the Exception of line 224.
C10_EndsExactlyWhenRunEnds ==
  /\ [](PollEnded =>
          /\ FirstEnd(script) # 0
          /\ queries = FirstEnd(script))
  /\ [](InPoll /\ FirstEnd(script) = 0 => pc \in {"poll_query", "poll_sleep"})
  /\ (PollRunning /\ FirstEnd(script) # 0
        /\ AnswersTerminal(script[FirstEnd(script)]))
       ~> (PollEnded /\ (result.outcome = "returned"
                           \/ result.raised = "Exception"))

\* a poll that has made more queries than the script is long and is still
\* looping
C10_Witness ==
  /\ PollRunning
  /\ FirstEnd(script) = 0
  /\ queries > Len(script)
  /\ pc = "poll_sleep"
====
